---- MODULE Spec2Model ----
(***************************************************************************)
(* Model of the ink! contract `tasks` (src/lib.rs): a Mapping from         *)
(* AccountId to Vec<Task> with the messages add_task, remove_task and      *)
(* get_task.  Each message runs to completion; a panic inside a message    *)
(* reverts the call, so a failed message leaves the storage as it was.     *)
(***************************************************************************)
EXTENDS Integers, Sequences, FiniteSets, TLC

\* ---------------------------------------------------------------- bounds
\* Largest number of tasks the storage is allowed to hold in the model
\* (all owners together); add_task is not explored beyond it.
MaxTasks == 3

\* Largest depth of the constructors' call stack explored by the model.
MaxCallDepth == 4

\* Largest number of add_task calls explored where the calls are counted.
MaxAdds == 4

\* ------------------------------------------------------------ input sets
\* AccountId values used as `user`.
Owners == {"alice", "bob"}

\* enum TaskState
TaskState == {"Todo", "Wip", "Done"}

\* struct Task { title, description, state }: two tasks share the title "a".
TaskSet ==
    { [title |-> "a", description |-> "d1", state |-> "Todo"],
      [title |-> "a", description |-> "d2", state |-> "Done"],
      [title |-> "b", description |-> "d1", state |-> "Wip"] }

\* Titles passed to remove_task; "c" is carried by no task.
Titles == {"a", "b", "c"}

\* Placeholders for the fields of an operation record that do not apply.
NoUser == ""
NoTitle == ""
NoTask == [title |-> "", description |-> "", state |-> "Todo"]

\* ------------------------------------------------------ Option and Vec
\* Option<T>: Some(x) and None (val holds the type's default under None).
Some(x) == [some |-> TRUE, val |-> x]
NoneVec == [some |-> FALSE, val |-> << >>]
NoneIdx == [some |-> FALSE, val |-> 0]

\* Option<usize>::unwrap_or_default
UnwrapOrDefault(o) == IF o.some THEN o.val ELSE 0

\* Vec::new
VecNew == << >>

\* Vec::is_empty
IsEmpty(v) == Len(v) = 0

\* Vec::push
VecPush(v, t) == Append(v, t)

\* A mutant of VecRemove: Vec::swap_remove, which fills the gap with the
\* last element.
VecRemove_Swap(v, index) ==
    IF index < Len(v)
    THEN [ok |-> TRUE,
          val |-> IF index + 1 = Len(v) THEN SubSeq(v, 1, index)
                  ELSE SubSeq(v, 1, index) \o <<v[Len(v)]>>
                          \o SubSeq(v, index + 2, Len(v) - 1)]
    ELSE [ok |-> FALSE, val |-> v]

\* Vec::remove(index), index counted from 0; panics when index >= len.
VecRemove(v, index) ==
    IF index < Len(v)
    THEN [ok |-> TRUE, val |-> SubSeq(v, 1, index) \o SubSeq(v, index + 2, Len(v))]
    ELSE [ok |-> FALSE, val |-> v]

\* A mutant of Position: the index of the last match instead of the first.
Position_Last(v, task_title) ==
    LET hits == {i \in 1..Len(v) : v[i].title = task_title}
    IN IF hits = {} THEN NoneIdx
       ELSE Some((CHOOSE i \in hits : \A j \in hits : j <= i) - 1)

\* tasks.iter().position(|t| t.title == task_title): index (from 0) of the
\* first task with that title, None when there is none.
Position(v, task_title) ==
    LET hits == {i \in 1..Len(v) : v[i].title = task_title}
    IN IF hits = {} THEN NoneIdx
       ELSE Some((CHOOSE i \in hits : \A j \in hits : i <= j) - 1)

\* ------------------------------------------------------------- Mapping
\* Mapping<AccountId, Vec<Task>>: every key holds an Option<Vec<Task>>.
MappingNew == [o \in Owners |-> NoneVec]

\* Mapping::contains
Contains(m, user) == m[user].some

\* Mapping::get
Get(m, user) == m[user]

\* A mutant of Insert: the value is written under every key.
Insert_AllKeys(m, user, v) == [o \in Owners |-> Some(v)]

\* Mapping::insert
Insert(m, user, v) == [m EXCEPT ![user] = Some(v)]

\* ------------------------------------------------------------ messages
\* A mutant of add_task: the task is put in front of the collection.
add_task_Front(store, user, task) ==
    LET s1 == IF ~Contains(store, user) THEN Insert(store, user, VecNew) ELSE store
        g == Get(s1, user)
    IN IF ~g.some THEN [store |-> store, ok |-> FALSE]
       ELSE [store |-> Insert(s1, user, <<task>> \o g.val), ok |-> TRUE]

\* A mutant of add_task: the insert-if-absent is left out.
add_task_NoInit(store, user, task) ==
    LET g == Get(store, user)
    IN IF ~g.some THEN [store |-> store, ok |-> FALSE]
       ELSE [store |-> Insert(store, user, VecPush(g.val, task)), ok |-> TRUE]

\* A mutant of add_task: the stored task starts in the state Todo.
add_task_ResetState(store, user, task) ==
    LET s1 == IF ~Contains(store, user) THEN Insert(store, user, VecNew) ELSE store
        g == Get(s1, user)
    IN IF ~g.some THEN [store |-> store, ok |-> FALSE]
       ELSE [store |-> Insert(s1, user,
                              VecPush(g.val, [task EXCEPT !.state = "Todo"])),
             ok |-> TRUE]

\* Tasks::add_task.  ok is FALSE when the unwrap panics (call reverted).
add_task(store, user, task) ==
    LET s1 == IF ~Contains(store, user) THEN Insert(store, user, VecNew) ELSE store
        g == Get(s1, user)
    IN IF ~g.some THEN [store |-> store, ok |-> FALSE]
       ELSE [store |-> Insert(s1, user, VecPush(g.val, task)), ok |-> TRUE]

\* A mutant of remove_task: the is_empty test is left out.
remove_task_NoEmptyTest(store, user, task_title) ==
    IF ~Contains(store, user)
    THEN [store |-> Insert(store, user, VecNew), ok |-> TRUE]
    ELSE LET g == Get(store, user)
             rm == VecRemove(g.val, UnwrapOrDefault(Position(g.val, task_title)))
         IN IF g.some /\ rm.ok
            THEN [store |-> Insert(store, user, rm.val), ok |-> TRUE]
            ELSE [store |-> store, ok |-> FALSE]

\* A mutant of remove_task: no entry is created for an absent owner.
remove_task_NoCreate(store, user, task_title) ==
    IF ~Contains(store, user)
    THEN [store |-> store, ok |-> TRUE]
    ELSE LET g1 == Get(store, user)
         IN IF ~g1.some THEN [store |-> store, ok |-> FALSE]
            ELSE IF ~IsEmpty(g1.val)
                 THEN LET rm == VecRemove(g1.val,
                                    UnwrapOrDefault(Position(g1.val, task_title)))
                      IN IF rm.ok
                         THEN [store |-> Insert(store, user, rm.val), ok |-> TRUE]
                         ELSE [store |-> store, ok |-> FALSE]
                 ELSE [store |-> store, ok |-> TRUE]

\* A mutant of remove_task: the shortened collection is not written back.
remove_task_NoStore(store, user, task_title) ==
    IF ~Contains(store, user)
    THEN [store |-> Insert(store, user, VecNew), ok |-> TRUE]
    ELSE LET g1 == Get(store, user)
         IN IF ~g1.some THEN [store |-> store, ok |-> FALSE]
            ELSE IF ~IsEmpty(g1.val)
                 THEN LET rm == VecRemove(g1.val,
                                    UnwrapOrDefault(Position(g1.val, task_title)))
                      IN [store |-> store, ok |-> rm.ok]
                 ELSE [store |-> store, ok |-> TRUE]

\* A mutant of remove_task: nothing is removed when no title matches.
remove_task_Guarded(store, user, task_title) ==
    IF ~Contains(store, user)
    THEN [store |-> Insert(store, user, VecNew), ok |-> TRUE]
    ELSE LET g1 == Get(store, user)
             pos == Position(g1.val, task_title)
         IN IF ~g1.some THEN [store |-> store, ok |-> FALSE]
            ELSE IF pos.some
                 THEN LET rm == VecRemove(g1.val, pos.val)
                      IN IF rm.ok
                         THEN [store |-> Insert(store, user, rm.val), ok |-> TRUE]
                         ELSE [store |-> store, ok |-> FALSE]
                 ELSE [store |-> store, ok |-> TRUE]

\* A mutant of remove_task: the entry of a collection that became empty is
\* taken out of the mapping.
remove_task_DropEntry(store, user, task_title) ==
    IF ~Contains(store, user)
    THEN [store |-> Insert(store, user, VecNew), ok |-> TRUE]
    ELSE LET g1 == Get(store, user)
         IN IF ~g1.some THEN [store |-> store, ok |-> FALSE]
            ELSE IF ~IsEmpty(g1.val)
                 THEN LET rm == VecRemove(g1.val,
                                    UnwrapOrDefault(Position(g1.val, task_title)))
                      IN IF ~rm.ok THEN [store |-> store, ok |-> FALSE]
                         ELSE IF IsEmpty(rm.val)
                              THEN [store |-> [store EXCEPT ![user] = NoneVec],
                                    ok |-> TRUE]
                              ELSE [store |-> Insert(store, user, rm.val),
                                    ok |-> TRUE]
                 ELSE [store |-> store, ok |-> TRUE]

\* Tasks::remove_task.  ok is FALSE when an unwrap or Vec::remove panics.
remove_task(store, user, task_title) ==
    IF ~Contains(store, user)
    THEN [store |-> Insert(store, user, VecNew), ok |-> TRUE]
    ELSE LET g1 == Get(store, user)
         IN IF ~g1.some THEN [store |-> store, ok |-> FALSE]
            ELSE IF ~IsEmpty(g1.val)
                 THEN LET g2 == Get(store, user)
                          rm == VecRemove(g2.val,
                                    UnwrapOrDefault(Position(g2.val, task_title)))
                      IN IF g2.some /\ rm.ok
                         THEN [store |-> Insert(store, user, rm.val), ok |-> TRUE]
                         ELSE [store |-> store, ok |-> FALSE]
                 ELSE [store |-> store, ok |-> TRUE]

\* A mutant of get_task: the contains test is left out.
get_task_NoContains(store, user) ==
    LET g == Get(store, user)
    IN IF g.some THEN [ok |-> TRUE, ret |-> g.val] ELSE [ok |-> FALSE, ret |-> << >>]

\* Tasks::get_task.  ret is the returned Vec<Task>.
get_task(store, user) ==
    IF ~Contains(store, user)
    THEN [ok |-> TRUE, ret |-> VecNew]
    ELSE LET g == Get(store, user)
         IN IF g.some THEN [ok |-> TRUE, ret |-> g.val]
            ELSE [ok |-> FALSE, ret |-> << >>]

\* A mutant of get_task_self: an entry is created for an absent owner, as
\* add_task and remove_task do.
get_task_self_Create(store, user) ==
    IF ~Contains(store, user) THEN Insert(store, user, VecNew) ELSE store

\* The storage after Tasks::get_task: the message takes &self and has no
\* Mapping::insert, so it is the storage before.
get_task_self(store, user) == store

\* ---------------------------------------------------------------- state
VARIABLES
    tasks,    \* the contract's storage field `tasks`
    twin,     \* the storage of a second instance that receives the same calls
    touched,  \* owners that were the `user` of an add_task or remove_task
    last,     \* the latest call: message, arguments, storage before, outcome
    prev,     \* the call before `last`
    ctor,     \* the running constructor: entry point, call stack, returned value
    held,     \* a Vec<Task> that get_task returned and the caller still holds
    added     \* per owner and task, the number of add_task calls made with it

vars == <<tasks, twin, touched, last, prev, ctor, held, added>>

\* The record of a call.  split: before the call, the two instances
\* disagreed on whether `user` has an entry.
Call(op, user, task, title, pre, ok, ret, split) ==
    [op |-> op, user |-> user, task |-> task, title |-> title,
     pre |-> pre, ok |-> ok, ret |-> ret, split |-> split]

NoCall == Call("new", NoUser, NoTask, NoTitle, MappingNew, TRUE, << >>, FALSE)

\* Number of tasks held by a storage, all owners together.
RECURSIVE SumLen(_, _)
SumLen(m, S) ==
    IF S = {} THEN 0
    ELSE LET o == CHOOSE x \in S : TRUE IN Len(m[o].val) + SumLen(m, S \ {o})

Stored(m) == SumLen(m, Owners)

Split(user) == Contains(tasks, user) # Contains(twin, user)

\* ---------------------------------------------------------- constructors
\* The three functions that build a Tasks: the inherent Tasks::new and
\* Tasks::default, and <Tasks as Default>::default.
Constructors == {"new", "default", "Default::default"}

\* A mutant of SelfDefault: the path resolves to the trait's function.
SelfDefault_Trait == "Default::default"

\* The function that the path Self::default() in Tasks::new names: an
\* inherent associated function has priority over a trait's.
SelfDefault == "default"

\* The function that the path Self::new() in <Tasks as Default>::default names.
SelfNew == "new"

\* The value a constructor has returned, if it has.
NoStore == [some |-> FALSE, val |-> MappingNew]

\* The state of a construction started at `entry`.
CtorStart(entry) == [entry |-> entry, stack |-> <<entry>>, ret |-> NoStore]

\* After the instantiation the constructor's frame and value are gone.
Deployed == [entry |-> "", stack |-> << >>, ret |-> NoStore]

\* The construction has returned; the contract takes messages.
Constructed == ctor.stack = << >>

\* No get_task result is held.
NoHeld == [some |-> FALSE, user |-> NoUser, ret |-> << >>]

\* No add_task call has been counted.
NoAdded == [o \in Owners |-> [t \in TaskSet |-> 0]]

\* Number of add_task calls counted.
RECURSIVE SumAdded(_, _)
SumAdded(a, S) ==
    IF S = {} THEN 0
    ELSE LET p == CHOOSE x \in S : TRUE IN a[p[1]][p[2]] + SumAdded(a, S \ {p})

TotalAdded == SumAdded(added, Owners \X TaskSet)

\* The storage is empty before the constructor runs; one of the three
\* constructing functions has been entered.
Init ==
    /\ tasks = MappingNew
    /\ twin = MappingNew
    /\ touched = {}
    /\ last = NoCall
    /\ prev = NoCall
    /\ ctor \in {CtorStart(f) : f \in Constructors}
    /\ held = NoHeld
    /\ added = NoAdded

\* One step of the running constructor.  Tasks::default builds
\* Self { tasks: Mapping::new() } and returns; Tasks::new calls
\* Self::default() and <Tasks as Default>::default calls Self::new(), and each
\* returns what its callee returned.  The value returned by the entry point
\* becomes the contract's storage.
CtorStep ==
    /\ ctor.stack # << >>
    /\ LET n == Len(ctor.stack)
           top == ctor.stack[n]
           rest == SubSeq(ctor.stack, 1, n - 1)
       IN IF top = "default" /\ ~ctor.ret.some
          THEN /\ ctor' = [ctor EXCEPT !.stack = rest,
                                       !.ret = [some |-> TRUE, val |-> MappingNew]]
               /\ tasks' = IF rest = << >> THEN MappingNew ELSE tasks
          ELSE IF ~ctor.ret.some
          THEN /\ n < MaxCallDepth
               /\ ctor' = [ctor EXCEPT !.stack =
                              Append(@, IF top = "new" THEN SelfDefault ELSE SelfNew)]
               /\ tasks' = tasks
          ELSE /\ ctor' = [ctor EXCEPT !.stack = rest]
               /\ tasks' = IF rest = << >> THEN ctor.ret.val ELSE tasks
    /\ UNCHANGED <<twin, touched, last, prev, held, added>>

\* Before the first common call, the second instance receives remove_task
\* for an owner without entry, which leaves it with an empty collection.
PrepareTwin(user, task_title) ==
    /\ last.op = "new"
    /\ ~Contains(twin, user)
    /\ twin' = remove_task(twin, user, task_title).store
    /\ UNCHANGED <<tasks, touched, last, prev>>

\* What add_task(user, task) does to the storage of both instances.
AddTaskEffect(user, task) ==
    /\ Stored(tasks) < MaxTasks
    /\ tasks' = add_task(tasks, user, task).store
    /\ twin' = add_task(twin, user, task).store
    /\ touched' = touched \cup {user}

\* The message add_task(user, task), sent to both instances and recorded.
AddTask(user, task) ==
    /\ AddTaskEffect(user, task)
    /\ last' = Call("add", user, task, NoTitle, tasks,
                    add_task(tasks, user, task).ok, << >>, Split(user))
    /\ prev' = last

\* What remove_task(user, task_title) does to the storage of both instances.
RemoveTaskEffect(user, task_title) ==
    /\ tasks' = remove_task(tasks, user, task_title).store
    /\ twin' = remove_task(twin, user, task_title).store
    /\ touched' = touched \cup {user}

\* The message remove_task(user, task_title), sent to both instances and
\* recorded.
RemoveTask(user, task_title) ==
    /\ RemoveTaskEffect(user, task_title)
    /\ last' = Call("remove", user, NoTask, task_title, tasks,
                    remove_task(tasks, user, task_title).ok, << >>, Split(user))
    /\ prev' = last

\* What get_task(user) does to the storage of both instances.
GetTaskEffect(user) ==
    /\ tasks' = get_task_self(tasks, user)
    /\ twin' = get_task_self(twin, user)
    /\ UNCHANGED touched

\* The message get_task(user), sent to both instances and recorded.
GetTask(user) ==
    /\ GetTaskEffect(user)
    /\ LET r == get_task(tasks, user)
       IN last' = Call("get", user, NoTask, NoTitle, tasks, r.ok, r.ret, Split(user))
    /\ prev' = last

\* A message is taken by the constructed contract.
Taken == Constructed /\ ctor' = Deployed

Next ==
    \/ CtorStep
    \/ \E user \in Owners, task_title \in Titles :
          Taken /\ PrepareTwin(user, task_title) /\ UNCHANGED <<held, added>>
    \/ \E user \in Owners, task \in TaskSet :
          Taken /\ AddTask(user, task) /\ UNCHANGED <<held, added>>
    \/ \E user \in Owners, task_title \in Titles :
          Taken /\ RemoveTask(user, task_title) /\ UNCHANGED <<held, added>>
    \/ \E user \in Owners :
          Taken /\ GetTask(user) /\ UNCHANGED <<held, added>>

Spec == Init /\ [][Next]_vars

\* A mutant of CallerView: the caller holds a reference into the storage.
CallerView_Alias(store, h) == get_task(store, h.user).ret

\* The sequence the caller reads in a held get_task result while the
\* contract's storage is `store`: get_task returns an owned Vec<Task>, decoded
\* from the storage by Mapping::get, so it is the value that was returned.
CallerView(store, h) == h.ret

\* get_task returns the Vec<Task> by value; the caller keeps it or keeps the
\* one it held before.
Hold(user, keep) ==
    held' = IF keep THEN held
            ELSE [some |-> TRUE, user |-> user, ret |-> get_task(tasks, user).ret]

\* The messages, with a caller that holds on to a get_task result; the calls
\* themselves are not recorded here.
NextHeld ==
    \/ CtorStep
    \/ \E user \in Owners, task \in TaskSet :
          /\ Taken /\ AddTaskEffect(user, task)
          /\ UNCHANGED <<last, prev, added, held>>
    \/ \E user \in Owners, task_title \in Titles :
          /\ Taken /\ RemoveTaskEffect(user, task_title)
          /\ UNCHANGED <<last, prev, added, held>>
    \/ \E user \in Owners, keep \in BOOLEAN :
          /\ Taken /\ GetTaskEffect(user) /\ Hold(user, keep)
          /\ UNCHANGED <<last, prev, added>>

SpecHeld == Init /\ [][NextHeld]_vars

\* The messages, with every add_task call counted; the calls themselves are
\* not recorded here.
NextAdded ==
    \/ CtorStep
    \/ \E user \in Owners, task \in TaskSet :
          /\ Taken /\ TotalAdded < MaxAdds
          /\ AddTaskEffect(user, task)
          /\ added' = [added EXCEPT ![user][task] = @ + 1]
          /\ UNCHANGED <<last, prev, held>>
    \/ \E user \in Owners, task_title \in Titles :
          /\ Taken /\ RemoveTaskEffect(user, task_title)
          /\ UNCHANGED <<last, prev, held, added>>
    \/ \E user \in Owners :
          /\ Taken /\ GetTaskEffect(user)
          /\ UNCHANGED <<last, prev, held, added>>

SpecAdded == Init /\ [][NextAdded]_vars

\* ------------------------------------------------------------- helpers
\* list(owner) of the specification: what get_task returns on a store.
List(store, user) == get_task(store, user).ret

\* Some task of the sequence carries the title.
HasTitle(v, task_title) == \E i \in 1..Len(v) : v[i].title = task_title

TypeOK ==
    /\ \A o \in Owners : tasks[o].some \in BOOLEAN /\ Len(tasks[o].val) <= MaxTasks
    /\ touched \subseteq Owners
    /\ last.op \in {"new", "add", "remove", "get"}

\* ---------------------------------------------------------------- claims
\* The collection of the latest call's user before that call.
LastBefore == List(last.pre, last.user)

\* The collection of the latest call's user after that call.
LastAfter == List(tasks, last.user)

\* prev and last are calls on the same user.
SameUser == prev.user = last.user

\* C1: add_task(user, task) does not fail and leaves list(user) equal to the
\* previous list(user) with task appended as last element (so [task] for an
\* owner without entry); add(o, t1) then add(o, t2) on an owner without entry
\* yields list(o) = [t1, t2].
C1_AddAppends ==
    /\ last.op = "add" =>
          /\ last.ok
          /\ LastAfter = Append(LastBefore, last.task)
          /\ (~Contains(last.pre, last.user) => LastAfter = <<last.task>>)
    /\ (last.op = "add" /\ prev.op = "add" /\ SameUser
            /\ ~Contains(prev.pre, prev.user)) =>
          LastAfter = <<prev.task, last.task>>

\* Witness of C1: two different tasks were added in a row to an owner that
\* had no entry.
C1_Witness ==
    /\ last.op = "add" /\ prev.op = "add" /\ SameUser
    /\ ~Contains(prev.pre, prev.user)
    /\ prev.task # last.task

\* C2: remove_task(user, title) with no task of that title in the user's
\* collection leaves list(user) unchanged.
C2_RemoveNoMatchUnchanged ==
    (last.op = "remove" /\ ~HasTitle(LastBefore, last.title)) =>
        LastAfter = LastBefore

\* C3: when the user's collection holds a task with the title, remove_task
\* removes exactly the matching task at the lowest index; every other element
\* (later tasks with the same title included) stays, in order.
C3_RemoveFirstMatch ==
    (last.op = "remove" /\ HasTitle(LastBefore, last.title)) =>
        \E i \in 1..Len(LastBefore) :
            /\ LastBefore[i].title = last.title
            /\ \A j \in 1..(i - 1) : LastBefore[j].title # last.title
            /\ LastAfter = SubSeq(LastBefore, 1, i - 1)
                              \o SubSeq(LastBefore, i + 1, Len(LastBefore))

\* Witness of C3: a removal from [x, y, z] where y and z are different tasks
\* with the removed title and x has another title.
C3_Witness ==
    /\ last.op = "remove"
    /\ Len(LastBefore) = 3
    /\ LastBefore[1].title # last.title
    /\ LastBefore[2].title = last.title
    /\ LastBefore[3].title = last.title
    /\ LastBefore[2] # LastBefore[3]
    /\ LastAfter = <<LastBefore[1], LastBefore[3]>>

\* C4: a call with user o1 leaves the entry, and so the list, of every other
\* owner o2 as it was.
C4_OtherOwnersUnchanged ==
    last.op # "new" =>
        \A o \in Owners \ {last.user} :
            /\ tasks[o] = last.pre[o]
            /\ List(tasks, o) = List(last.pre, o)

\* Witness of C4: a removal that changed its user's collection while another
\* owner holds a task with the removed title.
C4_Witness ==
    /\ last.op = "remove"
    /\ LastAfter # LastBefore
    /\ \E o \in Owners \ {last.user} : HasTitle(List(tasks, o), last.title)

\* C5: get_task of an owner that was never the user of add_task or
\* remove_task returns the empty sequence.
C5_UntouchedListsEmpty ==
    /\ \A o \in Owners \ touched : get_task(tasks, o) = [ok |-> TRUE, ret |-> << >>]
    /\ (last.op = "get" /\ last.user \notin touched) => (last.ok /\ last.ret = << >>)

\* Witness of C5: get_task was called for an untouched owner while another
\* owner holds tasks.
C5_Witness ==
    /\ last.op = "get"
    /\ last.user \notin touched
    /\ Stored(tasks) > 0

\* C6: no message fails: the latest call did not panic, and in the current
\* storage no add_task, remove_task or get_task panics for any argument
\* (every unwrap meets an entry, the index given to Vec::remove is in bounds).
C6_NoFailure ==
    /\ last.ok
    /\ \A o \in Owners :
          /\ get_task(tasks, o).ok
          /\ \A t \in TaskSet : add_task(tasks, o, t).ok
          /\ \A ti \in Titles : remove_task(tasks, o, ti).ok

\* Witness of C6: remove_task ran on an entry holding the empty collection,
\* and the call before it on a non-empty collection without a match.
C6_Witness ==
    /\ last.op = "remove" /\ last.ok
    /\ Contains(last.pre, last.user) /\ IsEmpty(LastBefore)
    /\ prev.op = "remove" /\ prev.ok
    /\ ~IsEmpty(List(prev.pre, prev.user))
    /\ ~HasTitle(List(prev.pre, prev.user), prev.title)

\* C7: remove_task on an owner without entry, or with an empty collection,
\* does not fail and leaves list(user) empty; for an owner without entry the
\* only change is the new entry with an empty collection.
C7_RemoveOnAbsentOrEmpty ==
    (last.op = "remove" /\ IsEmpty(LastBefore)) =>
        /\ last.ok
        /\ LastAfter = << >>
        /\ (~Contains(last.pre, last.user) =>
               tasks = [last.pre EXCEPT ![last.user] = Some(<< >>)])

\* Witness of C7: remove_task on an owner without entry, followed by
\* remove_task on the same owner, whose collection is now empty.
C7_Witness ==
    /\ prev.op = "remove" /\ ~Contains(prev.pre, prev.user)
    /\ last.op = "remove" /\ SameUser
    /\ Contains(last.pre, last.user) /\ IsEmpty(LastBefore)

\* C8: two instances that differ only in owners being without entry in one
\* and with an empty collection in the other return the same get_task result
\* for every owner after every common sequence of calls.
C8_AbsentEmptyIndistinguishable ==
    \A o \in Owners : get_task(tasks, o) = get_task(twin, o)

\* Witness of C8: add_task ran on an owner without entry in one instance and
\* with an empty collection in the other.
C8_Witness ==
    /\ last.op = "add"
    /\ last.split
    /\ ~Contains(last.pre, last.user)

\* C9: for a title that no task of the user's collection carries, calling
\* remove_task twice yields the same collection as calling it once.
C9_RemoveIdempotent ==
    (/\ prev.op = "remove" /\ last.op = "remove" /\ SameUser
     /\ prev.title = last.title
     /\ ~HasTitle(List(prev.pre, prev.user), prev.title)) =>
        LastAfter = LastBefore

\* C10: for a user whose collection holds no task titled task.title,
\* add_task(user, task) then remove_task(user, task.title) restores list(user)
\* to its value before the add; from an owner without entry the list is
\* [task] after the add and empty after the remove.
C10_AddRemoveRoundTrip ==
    (/\ prev.op = "add" /\ last.op = "remove" /\ SameUser
     /\ last.title = prev.task.title
     /\ ~HasTitle(List(prev.pre, prev.user), prev.task.title)) =>
        /\ LastBefore = Append(List(prev.pre, prev.user), prev.task)
        /\ LastAfter = List(prev.pre, prev.user)
        /\ (~Contains(prev.pre, prev.user) =>
               LastBefore = <<prev.task>> /\ LastAfter = << >>)

\* Witness of C10: the round trip on a non-empty collection.
C10_Witness ==
    /\ prev.op = "add" /\ last.op = "remove" /\ SameUser
    /\ last.title = prev.task.title
    /\ ~HasTitle(List(prev.pre, prev.user), prev.task.title)
    /\ ~IsEmpty(List(prev.pre, prev.user))
    /\ LastAfter = List(prev.pre, prev.user)

\* C11: get_task is a pure read: it leaves the whole storage as it was, also
\* for an owner without entry, so the call that follows a get_task meets the
\* storage that the get_task met.
C11_GetTaskPureRead ==
    /\ last.op = "get" => tasks = last.pre
    /\ (prev.op = "get" /\ last.op # "new") => last.pre = prev.pre

\* Witness of C11: get_task on an owner without entry, followed by add_task
\* on that owner, which still has no entry.
C11_Witness ==
    /\ prev.op = "get" /\ ~Contains(prev.pre, prev.user)
    /\ last.op = "add" /\ SameUser
    /\ ~Contains(last.pre, last.user)
    /\ LastAfter = <<last.task>>

\* C13: remove_task on a non-empty collection in which no task carries the
\* title takes index 0 and deletes the first task of the collection.
C13_NoMatchDeletesFirst ==
    (last.op = "remove" /\ ~IsEmpty(LastBefore)
        /\ ~HasTitle(LastBefore, last.title)) =>
        /\ UnwrapOrDefault(Position(LastBefore, last.title)) = 0
        /\ LastAfter = Tail(LastBefore)

\* Witness of C13: remove_task with the title "c" on a collection of two
\* tasks, of which the second is left.
C13_Witness ==
    /\ last.op = "remove" /\ last.title = "c"
    /\ Len(LastBefore) = 2
    /\ LastAfter = <<LastBefore[2]>>

\* C15: an owner that has an entry keeps it: every entry present before the
\* latest call is present after it, and every owner that was the user of
\* add_task or remove_task has an entry, also when its collection is empty.
C15_EntriesNeverDestroyed ==
    /\ \A o \in Owners : Contains(last.pre, o) => Contains(tasks, o)
    /\ \A o \in touched : Contains(tasks, o)

\* Witness of C15: remove_task took the only task of a collection, and the
\* owner still has an entry.
C15_Witness ==
    /\ last.op = "remove"
    /\ Len(LastBefore) = 1
    /\ IsEmpty(LastAfter)
    /\ Contains(tasks, last.user)

\* s is a subsequence of t: s is t with some elements left out.
RECURSIVE IsSubsequence(_, _)
IsSubsequence(s, t) ==
    IF s = << >> THEN TRUE
    ELSE IF t = << >> THEN FALSE
    ELSE IF Head(s) = Head(t) THEN IsSubsequence(Tail(s), Tail(t))
    ELSE IsSubsequence(s, Tail(t))

\* C16: remove_task never grows or reorders the collection: list(user) after
\* the call is a subsequence of list(user) before it, of the same length or
\* one shorter.
C16_RemoveYieldsSubsequence ==
    last.op = "remove" =>
        /\ IsSubsequence(LastAfter, LastBefore)
        /\ Len(LastAfter) \in {Len(LastBefore), Len(LastBefore) - 1}

\* Witness of C16: remove_task took the first of three different tasks.
C16_Witness ==
    /\ last.op = "remove"
    /\ Len(LastBefore) = 3
    /\ Cardinality({LastBefore[i] : i \in 1..3}) = 3
    /\ LastAfter = <<LastBefore[2], LastBefore[3]>>

Count(t, v) == Cardinality({i \in 1..Len(v) : v[i] = t})

\* C14: the store never modifies or fabricates tasks: every task in
\* list(owner) equals, in title, description and state, a task given to
\* add_task for that owner, and occurs in the list at most as often as it was
\* added for that owner.
C14_NoFabrication ==
    \A o \in Owners :
        LET v == List(tasks, o)
        IN /\ \A i \in 1..Len(v) :
                 \E t \in TaskSet :
                     /\ added[o][t] >= 1
                     /\ v[i].title = t.title
                     /\ v[i].description = t.description
                     /\ v[i].state = t.state
           /\ \A t \in TaskSet : Count(t, v) <= added[o][t]

\* Witness of C14: a task was added twice for an owner and is once in the
\* owner's collection of two tasks.
C14_Witness ==
    \E o \in Owners, t \in TaskSet :
        /\ added[o][t] = 2
        /\ Count(t, List(tasks, o)) = 1
        /\ Len(List(tasks, o)) = 2

\* C17: construction terminates and yields an empty store: no constructing
\* function is on the call stack twice (new, default and Default::default do
\* not call each other in a cycle), a running construction can always take
\* its next step, and the value returned, which becomes the storage, has no
\* entry for any owner.
C17_ConstructionTerminates ==
    /\ \A i, j \in 1..Len(ctor.stack) : i # j => ctor.stack[i] # ctor.stack[j]
    /\ ctor.stack # << >> => ENABLED CtorStep
    /\ ctor.ret.some => \A o \in Owners : ~Contains(ctor.ret.val, o)
    /\ (Constructed /\ last.op = "new") => \A o \in Owners : ~Contains(tasks, o)

\* Witness of C17: the construction entered at <Tasks as Default>::default
\* has returned, through Tasks::new and Tasks::default, an empty store.
C17_Witness ==
    /\ ctor.entry = "Default::default"
    /\ Constructed
    /\ ctor.ret.some
    /\ \A o \in Owners : ~Contains(tasks, o)

====
